---- MODULE Spec2Model ----
(***************************************************************************)
(* A model of mkpdf.core: the PDFMetadata value, the ImageToPDF converter  *)
(* (quality, metadata), its geometry helpers and the two conversion        *)
(* entry points convert_single_image and convert_multiple_images.          *)
(*                                                                         *)
(* Page dimensions are Python floats (IEEE-754 doubles) and the geometry   *)
(* is computed with float division, multiplication and subtraction, so     *)
(* the first part of the module is a small binary floating-point           *)
(* arithmetic on bit sequences: a number is sign * mantissa * 2^e with the *)
(* mantissa a most-significant-bit-first sequence of bits.                 *)
(***************************************************************************)
EXTENDS Integers, Sequences, FiniteSets, TLC

(***************************************************************************)
(* Natural numbers as bit sequences (most significant bit first).          *)
(***************************************************************************)

\* n zero bits
Zeros(n) == [i \in 1..n |-> 0]

\* the number of bits of a natural number n < 2^30
BitLength(n) == CHOOSE k \in 0..30 : 2 ^ k > n /\ (k = 0 \/ 2 ^ (k - 1) <= n)

\* the bits of a natural number n < 2^30, <<>> for 0
NatBits(n) ==
    LET len == BitLength(n)
    IN  [i \in 1..len |-> (n \div 2 ^ (len - i)) % 2]

RECURSIVE BitsNat(_)
\* the small natural number a bit sequence denotes
BitsNat(b) ==
    IF b = <<>> THEN 0 ELSE 2 * BitsNat(SubSeq(b, 1, Len(b) - 1)) + b[Len(b)]

\* the positions of the 1 bits of b
Ones(b) == {i \in 1..Len(b) : b[i] = 1}

\* the least element of a nonempty set of integers
Least(S) == CHOOSE i \in S : \A j \in S : i <= j

\* the greatest element of a nonempty set of integers
Greatest(S) == CHOOSE i \in S : \A j \in S : i >= j

\* without leading zero bits
Strip(b) ==
    IF Ones(b) = {} THEN <<>> ELSE SubSeq(b, Least(Ones(b)), Len(b))

\* left-padded with zeros to n bits
PadTo(b, n) == Zeros(n - Len(b)) \o b

\* b < c for two bit sequences of the same length
BitsLess(b, c) ==
    LET differ == {i \in 1..Len(b) : b[i] # c[i]}
    IN  differ # {} /\ b[Least(differ)] < c[Least(differ)]

\* b + 1, one bit longer when every bit of b is 1
Inc(b) ==
    LET n  == Len(b)
        zs == {i \in 1..n : b[i] = 0}
    IN  IF zs = {} THEN <<1>> \o Zeros(n)
        ELSE LET k == Greatest(zs)
             IN  [i \in 1..n |-> IF i < k THEN b[i] ELSE IF i = k THEN 1 ELSE 0]

\* The operations below work through a bit sequence eight bits at a time.

\* the number of bits of the next group when n bits are left
Group(n) == IF n < 8 THEN n ELSE 8

RECURSIVE SubFrom(_, _, _, _)
\* the low bits of b - c: acc holds the bits already produced, from the
\* least significant one, and borrow the borrow into the next group
SubFrom(b, c, borrow, acc) ==
    LET hi == Len(b) - Len(acc)
        n  == Group(hi)
        t  == BitsNat(SubSeq(b, hi - n + 1, hi))
              - BitsNat(SubSeq(c, hi - n + 1, hi)) - borrow
    IN  IF hi = 0 THEN acc
        ELSE IF t < 0
        THEN SubFrom(b, c, 1, PadTo(NatBits(t + 2 ^ n), n) \o acc)
        ELSE SubFrom(b, c, 0, PadTo(NatBits(t), n) \o acc)

\* b - c for two bit sequences of the same length with c <= b
BitsSub(b, c) == SubFrom(b, c, 0, <<>>)

RECURSIVE MulFrom(_, _, _, _)
\* b * d: acc holds the bits already produced, from the least significant
\* one, and carry the carry into the next group
MulFrom(b, d, carry, acc) ==
    LET hi == Len(b) - Len(acc)
        n  == Group(hi)
        t  == BitsNat(SubSeq(b, hi - n + 1, hi)) * d + carry
    IN  IF hi = 0 THEN NatBits(carry) \o acc
        ELSE MulFrom(b, d, t \div 2 ^ n, PadTo(NatBits(t % 2 ^ n), n) \o acc)

\* b * d for a natural number 1 <= d < 2^22
BitsMul(b, d) == Strip(MulFrom(b, d, 0, <<>>))

RECURSIVE DivFrom(_, _, _, _)
\* long division of b by d: acc holds the quotient bits already produced,
\* from the most significant one, and rem the remainder so far
DivFrom(b, d, rem, acc) ==
    LET lo == Len(acc) + 1
        n  == Group(Len(b) - Len(acc))
        t  == rem * 2 ^ n + BitsNat(SubSeq(b, lo, lo + n - 1))
    IN  IF lo > Len(b) THEN [q |-> acc, r |-> rem]
        ELSE DivFrom(b, d, t % d, acc \o PadTo(NatBits(t \div d), n))

\* b \div d and b % d for a natural number 1 <= d < 2^22 (long division)
BitsDivMod(b, d) == DivFrom(b, d, 0, <<>>)

(***************************************************************************)
(* Python floats: [s, m, e] is s * m * 2^e, m of exactly MantissaBits bits *)
(* with a leading 1, or <<>> for zero.                                     *)
(***************************************************************************)

\* the precision of a Python float (IEEE-754 binary64)
MantissaBits == 53

FZero == [s |-> 1, m |-> <<>>, e |-> 0]

\* sign * bits * 2^e (sticky: nonzero bits were dropped below 2^e), rounded
\* to the nearest float, ties to even
Round(sign, bits, e, sticky) ==
    LET b == Strip(bits)
        n == Len(b)
    IN  IF n = 0 THEN FZero
        ELSE IF n <= MantissaBits
        THEN [s |-> sign, m |-> b \o Zeros(MantissaBits - n),
              e |-> e - (MantissaBits - n)]
        ELSE LET keep == SubSeq(b, 1, MantissaBits)
                 half == b[MantissaBits + 1]
                 rest == sticky \/ \E i \in (MantissaBits + 2)..n : b[i] = 1
                 up   == half = 1 /\ (rest \/ keep[MantissaBits] = 1)
                 r    == IF up THEN Inc(keep) ELSE keep
                 drop == n - MantissaBits
             IN  IF Len(r) > MantissaBits
                 THEN [s |-> sign, m |-> SubSeq(r, 1, MantissaBits),
                       e |-> e + drop + 1]
                 ELSE [s |-> sign, m |-> r, e |-> e + drop]

\* float(n) for an int n
FromInt(n) ==
    IF n < 0 THEN Round(-1, NatBits(-n), 0, FALSE) ELSE Round(1, NatBits(n), 0, FALSE)

\* x / d for a float x and a positive int d
FDivInt(x, d) ==
    IF x.m = <<>> THEN FZero
    ELSE LET k  == Len(NatBits(d)) + 2
             qr == BitsDivMod(x.m \o Zeros(k), d)
         IN  Round(x.s, qr.q, x.e - k, qr.r # 0)

\* d * x for a float x and a nonnegative int d
FMulInt(d, x) ==
    IF x.m = <<>> \/ d = 0 THEN FZero
    ELSE Round(x.s, BitsMul(x.m, d), x.e, FALSE)

\* x < y for two positive floats
FLess(x, y) ==
    \/ x.e < y.e
    \/ x.e = y.e /\ BitsLess(x.m, y.m)

\* Python's min(x, y): y when y < x, else x
FMin(x, y) == IF FLess(y, x) THEN y ELSE x

\* int(x): truncation toward zero (for |x| < 2^31)
FInt(x) ==
    LET n == Len(x.m) + x.e
    IN  IF x.m = <<>> \/ n <= 0 THEN 0
        ELSE IF x.e >= 0 THEN x.s * BitsNat(x.m \o Zeros(x.e))
        ELSE x.s * BitsNat(SubSeq(x.m, 1, n))

\* the exact difference x - n of a positive float x (x.e <= 0) and a
\* nonnegative int n, as sign * bits * 2^x.e
ExactSubInt(x, n) ==
    LET nb  == NatBits(n) \o Zeros(-x.e)
        len == IF Len(nb) > Len(x.m) THEN Len(nb) ELSE Len(x.m)
        a   == PadTo(x.m, len)
        b   == PadTo(nb, len)
    IN  IF BitsLess(a, b)
        THEN [s |-> -1, bits |-> Strip(BitsSub(b, a)), e |-> x.e]
        ELSE [s |-> 1, bits |-> Strip(BitsSub(a, b)), e |-> x.e]

\* x - n for a positive float x and a nonnegative int n
FSubInt(x, n) ==
    LET d == ExactSubInt(x, n)
    IN  Round(d.s, d.bits, d.e, FALSE)

\* x / 2
FHalf(x) == IF x.m = <<>> THEN FZero ELSE [x EXCEPT !.e = @ - 1]

\* the bits of a sequence of hexadecimal digits
HexBits(h) ==
    Strip([i \in 1..(4 * Len(h)) |->
              (h[((i - 1) \div 4) + 1] \div (2 ^ (3 - ((i - 1) % 4)))) % 2])

(***************************************************************************)
(* PageSize and ImagePosition.                                             *)
(***************************************************************************)

\* reportlab's A4 = (210*mm, 297*mm) = (595.2755905511812, 841.8897637795277),
\* as floats 0x1.29a3468d1a347p+9 and 0x1.a4f1e3c78f1e5p+9
A4 ==
    <<[s |-> 1, m |-> HexBits(<<1, 2, 9, 10, 3, 4, 6, 8, 13, 1, 10, 3, 4, 7>>),
       e |-> -43],
      [s |-> 1, m |-> HexBits(<<1, 10, 4, 15, 1, 14, 3, 12, 7, 8, 15, 1, 14, 5>>),
       e |-> -43]>>

\* reportlab's letter = (8.5*inch, 11*inch) = (612.0, 792.0)
letter == <<FromInt(612), FromInt(792)>>

\* reportlab's landscape(pagesize): the longer side first
landscape(pagesize) ==
    IF FLess(pagesize[1], pagesize[2])
    THEN <<pagesize[2], pagesize[1]>>
    ELSE pagesize

\* the members of the enum PageSize
PageSize == {"A4", "LETTER", "A4_LANDSCAPE", "LETTER_LANDSCAPE"}

\* PageSize.<name>.value
PageSizeValue(ps) ==
    CASE ps = "A4" -> A4
      [] ps = "LETTER" -> letter
      [] ps = "A4_LANDSCAPE" -> landscape(A4)
      [] ps = "LETTER_LANDSCAPE" -> landscape(letter)

\* the members of the enum ImagePosition
ImagePosition == {"CENTER", "TOP_LEFT", "TOP_RIGHT", "BOTTOM_LEFT", "BOTTOM_RIGHT"}

(***************************************************************************)
(* The geometry helpers.                                                   *)
(***************************************************************************)

\* a sizing that scales each dimension by the factor of its own axis
GetImageSizeStretch(width, height, max_size) ==
    <<FInt(FMulInt(width, FDivInt(max_size[1], width))),
      FInt(FMulInt(height, FDivInt(max_size[2], height)))>>

\* ImageToPDF._get_image_size: image.size = (width, height) scaled by the
\* one ratio min(max_width/width, max_height/height), truncated by int()
GetImageSize(width, height, max_size) ==
    LET ratio == FMin(FDivInt(max_size[1], width), FDivInt(max_size[2], height))
    IN  <<FInt(FMulInt(width, ratio)), FInt(FMulInt(height, ratio))>>

\* the resize step written inline in convert_single_image: the new
\* (new_width, new_height) of the image
InlineResize(img_width, img_height, page_width, page_height) ==
    LET scale == FMin(FDivInt(page_width, img_width),
                      FDivInt(page_height, img_height))
    IN  <<FInt(FMulInt(img_width, scale)), FInt(FMulInt(img_height, scale))>>

\* x, or 0 when x is negative
Clamp(x) == IF x.s = -1 THEN FZero ELSE x

\* a _calculate_position that keeps the image's anchor on the page
ClampedPosition(width, height, page_size, position) ==
    LET x == FSubInt(page_size[1], width)
        y == FSubInt(page_size[2], height)
    IN  CASE position = "TOP_LEFT" -> <<FZero, Clamp(y)>>
          [] position = "TOP_RIGHT" -> <<Clamp(x), Clamp(y)>>
          [] position = "BOTTOM_LEFT" -> <<FZero, FZero>>
          [] position = "BOTTOM_RIGHT" -> <<Clamp(x), FZero>>
          [] OTHER -> <<Clamp(FHalf(x)), Clamp(FHalf(y))>>

\* ImageToPDF._calculate_position: the anchor (x, y) of the image
CalculatePosition(width, height, page_size, position) ==
    LET page_width  == page_size[1]
        page_height == page_size[2]
    IN  CASE position = "CENTER" ->
               <<FHalf(FSubInt(page_width, width)),
                 FHalf(FSubInt(page_height, height))>>
          [] position = "TOP_LEFT" -> <<FZero, FSubInt(page_height, height)>>
          [] position = "TOP_RIGHT" ->
               <<FSubInt(page_width, width), FSubInt(page_height, height)>>
          [] position = "BOTTOM_LEFT" -> <<FZero, FZero>>
          [] position = "BOTTOM_RIGHT" -> <<FSubInt(page_width, width), FZero>>
          [] OTHER ->
               <<FHalf(FSubInt(page_width, width)),
                 FHalf(FSubInt(page_height, height))>>

\* the placement written inline in convert_single_image (no else branch:
\* the position has been validated)
InlinePosition(img_width, img_height, page_width, page_height, position) ==
    CASE position = "CENTER" ->
           <<FHalf(FSubInt(page_width, img_width)),
             FHalf(FSubInt(page_height, img_height))>>
      [] position = "TOP_LEFT" -> <<FZero, FSubInt(page_height, img_height)>>
      [] position = "TOP_RIGHT" ->
           <<FSubInt(page_width, img_width), FSubInt(page_height, img_height)>>
      [] position = "BOTTOM_LEFT" -> <<FZero, FZero>>
      [] position = "BOTTOM_RIGHT" -> <<FSubInt(page_width, img_width), FZero>>

(***************************************************************************)
(* State.                                                                  *)
(***************************************************************************)

VARIABLES
    quality,    \* ImageToPDF._quality
    metadata,   \* ImageToPDF._metadata
    dirs,       \* the directories that exist on the filesystem
    call,       \* per calling thread: the call in progress or just ended
    geo         \* the last application of a geometry helper

vars == <<quality, metadata, dirs, call, geo>>

(***************************************************************************)
(* PDFMetadata and the converter's properties.                             *)
(***************************************************************************)

\* the field values of a PDFMetadata(title, author, subject, keywords, creator)
PDFMetadata(title, author, subject, keywords, creator) ==
    [title |-> title, author |-> author, subject |-> subject,
     keywords |-> keywords, creator |-> creator]

\* a __post_init__ that requires a subject as well
PostInitSubject(md) ==
    IF md.title = "" \/ md.author = "" \/ md.subject = "" \/ md.creator = ""
    THEN "ValidationError"
    ELSE "none"

\* PDFMetadata.__post_init__: the error it raises, "none" when it returns
PostInit(md) ==
    IF md.title = "" THEN "ValidationError"
    ELSE IF md.author = "" THEN "ValidationError"
    ELSE IF md.creator = "" THEN "ValidationError"
    ELSE "none"

\* the default of the dataclass field creator
DefaultCreator == "MKPDF"

\* the metadata ImageToPDF.__init__ constructs
InitMetadata ==
    PDFMetadata("Untitled Document", "MKPDF", "Image to PDF Conversion",
                "PDF, Image, Conversion", "MKPDF")

\* the quality ImageToPDF.__init__ sets
InitQuality == 95

\* a setter that stores whatever it is given
QualityUnchecked(value) == "none"

\* the quality setter's range check: the error it raises, "none" when it stores
QualityCheck(value) ==
    IF ~(0 <= value /\ value <= 100) THEN "ValidationError" ELSE "none"

(***************************************************************************)
(* The filesystem and the external collaborators.                          *)
(***************************************************************************)

\* the image paths callers pass, with what Image.open finds there
ImagePaths ==
    {"photo.jpg", "banner.png", "broken.jpg", "notes.txt", "missing.jpg"}

\* "image": a decodable image; "corrupt": a file with the header of an image
\* (Image.open identifies it, verify() passes) whose pixel data cannot be
\* loaded; "text": a file that is no image; "missing": no file
ImageKind(path) ==
    CASE path = "photo.jpg" -> "image"
      [] path = "banner.png" -> "image"
      [] path = "broken.jpg" -> "corrupt"
      [] path = "notes.txt" -> "text"
      [] OTHER -> "missing"

\* Image.open(path) succeeds: the file is identified as an image
Identified(path) == ImageKind(path) \in {"image", "corrupt"}

\* the pixel data of the file can be loaded
Loads(path) == ImageKind(path) = "image"

\* the (width, height) in the header of an image file
ImageSize(path) ==
    CASE path = "photo.jpg" -> <<640, 480>>
      [] path = "banner.png" -> <<3000, 100>>
      [] path = "broken.jpg" -> <<640, 480>>
      [] OTHER -> <<0, 0>>

\* the output paths callers pass
OutputPaths == {"out.pdf", "new/out.pdf", "denied/out.pdf"}

\* os.path.dirname(output_path)
Dirname(path) ==
    CASE path = "new/out.pdf" -> "new"
      [] path = "new/b.pdf" -> "new"
      [] path = "denied/out.pdf" -> "denied"
      [] OTHER -> ""

\* the directories os.makedirs is able to create
Creatable == {"new"}

\* a pixel source: the file at path as decoded, rotated by rot degrees, of
\* size (w, h), resampled or not
NoImage == [path |-> "", rot |-> 0, w |-> 0, h |-> 0, resampled |-> FALSE]

\* Image.open(path) of a decodable image, and the file a path names
Decoded(path) ==
    [path |-> path, rot |-> 0, w |-> ImageSize(path)[1],
     h |-> ImageSize(path)[2], resampled |-> FALSE]

\* a rotate without expand: the rotated image keeps the size of the original
RotatedInPlace(img, angle) == [img EXCEPT !.rot = (@ + angle) % 360]

\* image.rotate(angle, expand=True) for a multiple of 90 degrees
Rotated(img, angle) ==
    IF angle = 90 \/ angle = 270
    THEN [img EXCEPT !.rot = (@ + angle) % 360, !.w = img.h, !.h = img.w]
    ELSE [img EXCEPT !.rot = (@ + angle) % 360]

\* image.resize((w, h), LANCZOS)
Resized(img, size) ==
    [img EXCEPT !.w = size[1], !.h = size[2], !.resampled = TRUE]

Unset == "<unset>"

\* no metadata: every field unset
NoMetadata ==
    [title |-> Unset, author |-> Unset, subject |-> Unset, keywords |-> Unset,
     creator |-> Unset]

\* a canvas.Canvas: the document's information fields, the drawings of the
\* page being composed, the pages emitted, whether it has been saved
NoDoc ==
    [open |-> FALSE, path |-> "", pagesize |-> <<>>,
     info |-> NoMetadata,
     cur |-> <<>>, pages |-> <<>>, saved |-> FALSE]

\* canvas.Canvas(output_path, pagesize=pagesize)
NewDoc(path, pagesize) ==
    [NoDoc EXCEPT !.open = TRUE, !.path = path, !.pagesize = pagesize]

\* c.drawImage(src, x, y, width, height, preserveAspectRatio=preserve)
DrawImage(doc, src, xy, width, height, preserve) ==
    [doc EXCEPT !.cur = Append(@, [src |-> src, x |-> xy[1], y |-> xy[2],
                                    width |-> width, height |-> height,
                                    preserveAspectRatio |-> preserve])]

\* the size a drawing takes on the page: the document writer stretches the
\* image to width x height, or with preserveAspectRatio scales it by the one
\* factor min(width/image width, height/image height) to fit inside
DrawnSize(d) ==
    IF d.preserveAspectRatio
    THEN LET scale == FMin(FDivInt(FromInt(d.width), d.src.w),
                           FDivInt(FromInt(d.height), d.src.h))
         IN  <<FMulInt(d.src.w, scale), FMulInt(d.src.h, scale)>>
    ELSE <<FromInt(d.width), FromInt(d.height)>>

\* c.showPage()
ShowPage(doc) == [doc EXCEPT !.pages = Append(@, doc.cur), !.cur = <<>>]

\* c.save(): the page being composed is emitted when something is drawn on it
Saved(doc) ==
    [(IF doc.cur # <<>> THEN ShowPage(doc) ELSE doc) EXCEPT !.saved = TRUE]

(***************************************************************************)
(* A conversion call.                                                      *)
(***************************************************************************)

\* an Optional[int]: None, or the int given
None == <<>>
Some(v) == <<v>>

\* the three kinds of MKPDFError
MKPDFErrors == {"ValidationError", "ImageError", "PDFError"}

\* the command line of an invocation of the multiple command: its
\* arguments and options, an option not given being None, and what it has
\* echoed
NoCli ==
    [cmd |-> "none", input_pattern |-> "", output_path |-> "",
     page_size |-> "", rotate |-> 0, resize |-> FALSE, position |-> "",
     quality |-> 0, title |-> None, author |-> None, subject |-> None,
     keywords |-> None, echo |-> <<>>]

\* the converter as a call finds it at entry: nothing before a call
NoEntry == [quality |-> None, metadata |-> NoMetadata]

\* no call: the parameters, the locals img, width, height, x, y and c, the
\* collaborator calls made so far (log) and the exception raised (err); md
\* is the PDFMetadata a metadata assignment constructs, entry the
\* converter's quality and metadata when the call was entered; fp holds the
\* images (by their place in image_paths) whose file Image.open has opened
\* and nothing has closed since
Idle ==
    [op |-> "none", pc |-> "idle", image_paths |-> <<>>, output_path |-> "",
     page_size |-> "", rotate |-> 0, resize |-> FALSE, position |-> "",
     quality |-> None, k |-> 0, img |-> NoImage, width |-> 0, height |-> 0,
     md |-> NoMetadata, xy |-> <<FZero, FZero>>, doc |-> NoDoc, log |-> <<>>,
     err |-> "none", entry |-> NoEntry, cli |-> NoCli, fp |-> {}]

\* the call record at entry of op with arguments a
Entered(op, a) ==
    [Idle EXCEPT !.op = op, !.image_paths = a.image_paths,
                 !.output_path = a.output_path, !.page_size = a.page_size,
                 !.rotate = a.rotate, !.resize = a.resize,
                 !.position = a.position, !.quality = a.quality,
                 !.entry = [quality |-> Some(quality), metadata |-> metadata]]

\* the call ends raising err
Raise(c, err) == [c EXCEPT !.pc = "done", !.err = err]

\* the call goes on at pc, having made the collaborator call ev
Step(c, pc, ev) == [c EXCEPT !.pc = pc, !.log = Append(@, ev)]

\* a thread may enter a call when it is in none
Free(t) == call[t].pc = "idle"

\* the output file can be written: its directory exists
CanWrite(path) == Dirname(path) = "" \/ Dirname(path) \in dirs

\* parameter checks that leave the quality to a later step
SingleValidationNoQuality(a) ==
    IF a.page_size \notin PageSize THEN "ValidationError"
    ELSE IF a.rotate \notin {0, 90, 180, 270} THEN "ValidationError"
    ELSE IF a.position \notin ImagePosition THEN "ValidationError"
    ELSE "none"

\* the parameter checks at the head of convert_single_image: the error
\* raised, "none" when they pass
SingleValidation(a) ==
    IF a.page_size \notin PageSize THEN "ValidationError"
    ELSE IF a.rotate \notin {0, 90, 180, 270} THEN "ValidationError"
    ELSE IF a.position \notin ImagePosition THEN "ValidationError"
    ELSE IF a.quality # None /\ ~(0 <= a.quality[1] /\ a.quality[1] <= 100)
    THEN "ValidationError"
    ELSE "none"

\* the parameter checks at the head of convert_multiple_images: the range
\* check compares quality even when it is None, which raises TypeError
BatchValidation(a) ==
    IF a.page_size \notin PageSize THEN "ValidationError"
    ELSE IF a.rotate \notin {0, 90, 180, 270} THEN "ValidationError"
    ELSE IF a.position \notin ImagePosition THEN "ValidationError"
    ELSE IF a.quality = None THEN "TypeError"
    ELSE IF ~(0 <= a.quality[1] /\ a.quality[1] <= 100) THEN "ValidationError"
    ELSE "none"

\* no handler: the exception passes as raised
Unwrapped(err) == err

\* what the handlers of convert_single_image make of an exception raised
\* inside its try block: the three kinds pass, anything else is a PDFError
SingleWrap(err) == IF err \in MKPDFErrors THEN err ELSE "PDFError"

(***************************************************************************)
(* convert_single_image, statement by statement.                           *)
(***************************************************************************)

\* entry with arguments among args: the parameter checks
ConvertSingleImage(t, args) ==
    /\ Free(t)
    /\ \E a \in args :
         call' = [call EXCEPT ![t] =
                    IF SingleValidation(a) = "none"
                    THEN [Entered("single", a) EXCEPT !.pc = "checkdir"]
                    ELSE Raise(Entered("single", a), SingleValidation(a))]
    /\ UNCHANGED <<quality, metadata, dirs, geo>>

\* a call that goes on to open the image without looking at the output
\* directory
SingleCheckDirSkip(t) ==
    LET c == call[t]
    IN  /\ c.pc = "checkdir"
        /\ call' = [call EXCEPT ![t].pc = "open"]
        /\ UNCHANGED <<quality, metadata, dirs, geo>>

\* output_dir = os.path.dirname(output_path); does it exist
SingleCheckDir(t) ==
    LET c == call[t]
        output_dir == Dirname(c.output_path)
    IN  /\ c.pc = "checkdir"
        /\ call' = [call EXCEPT ![t].pc =
                      IF output_dir # "" /\ output_dir \notin dirs
                      THEN "makedirs" ELSE "open"]
        /\ UNCHANGED <<quality, metadata, dirs, geo>>

\* os.makedirs(output_dir), an OSError becoming a PDFError
SingleMakeDirs(t) ==
    LET c == call[t]
        output_dir == Dirname(c.output_path)
    IN  /\ c.pc = "makedirs"
        /\ IF output_dir \in Creatable /\ output_dir \notin dirs
           THEN /\ dirs' = dirs \cup {output_dir}
                /\ call' = [call EXCEPT ![t] = Step(c, "open", "makedirs")]
           ELSE /\ call' = [call EXCEPT ![t] = Raise(c, SingleWrap("PDFError"))]
                /\ UNCHANGED dirs
        /\ UNCHANGED <<quality, metadata, geo>>

\* an Image.open whose OSError is left to the handler of Exception
SingleOpenAsPDFError(t) ==
    LET c == call[t]
        image_path == c.image_paths[1]
    IN  /\ c.pc = "open"
        /\ call' = [call EXCEPT ![t] =
                      IF Identified(image_path)
                      THEN [Step(c, "rotate", "decode") EXCEPT
                                !.img = Decoded(image_path),
                                !.fp = @ \cup {1}]
                      ELSE Raise(c, "PDFError")]
        /\ UNCHANGED <<quality, metadata, dirs, geo>>

\* img = Image.open(image_path), an OSError becoming an ImageError
SingleOpen(t) ==
    LET c == call[t]
        image_path == c.image_paths[1]
    IN  /\ c.pc = "open"
        /\ call' = [call EXCEPT ![t] =
                      IF Identified(image_path)
                      THEN [Step(c, "rotate", "decode") EXCEPT
                                !.img = Decoded(image_path),
                                !.fp = @ \cup {1}]
                      ELSE Raise(c, SingleWrap("ImageError"))]
        /\ UNCHANGED <<quality, metadata, dirs, geo>>

\* if rotate != 0: img = img.rotate(rotate, expand=True), which loads the
\* pixel data, and the image closes its file once the load is complete; an
\* exception becomes a PDFError
SingleRotate(t) ==
    LET c == call[t]
    IN  /\ c.pc = "rotate"
        /\ IF c.rotate # 0
           THEN \E ok \in BOOLEAN :
                  call' = [call EXCEPT ![t] =
                             IF ok /\ Loads(c.img.path)
                             THEN [Step(c, "resize", "rotate") EXCEPT
                                       !.img = Rotated(c.img, c.rotate),
                                       !.fp = @ \ {1}]
                             ELSE Raise(c, SingleWrap("Exception"))]
           ELSE call' = [call EXCEPT ![t].pc = "resize"]
        /\ UNCHANGED <<quality, metadata, dirs, geo>>

\* a resize that shrinks the size further by the converter's quality, in
\* percent
SingleResizeAtQuality(t) ==
    LET c == call[t]
        page == PageSizeValue(c.page_size)
    IN  /\ c.pc = "resize"
        /\ IF c.resize
           THEN \E new \in {InlineResize(c.img.w, c.img.h, page[1], page[2])},
                   ok \in BOOLEAN :
                  call' = [call EXCEPT ![t] =
                             IF ok /\ Loads(c.img.path)
                                /\ new[1] >= 1 /\ new[2] >= 1
                             THEN [Step(c, "create", "resize") EXCEPT
                                       !.img = Resized(c.img,
                                                 <<(new[1] * quality) \div 100,
                                                   (new[2] * quality) \div 100>>),
                                       !.fp = @ \ {1}]
                             ELSE Raise(c, SingleWrap("Exception"))]
           ELSE call' = [call EXCEPT ![t].pc = "create"]
        /\ UNCHANGED <<quality, metadata, dirs, geo>>

\* if resize: img = img.resize((new_width, new_height), LANCZOS); the
\* resampler rejects a size with a component below 1
SingleResize(t) ==
    LET c == call[t]
        page == PageSizeValue(c.page_size)
    IN  /\ c.pc = "resize"
        /\ IF c.resize
           THEN \E new \in {InlineResize(c.img.w, c.img.h, page[1], page[2])},
                   ok \in BOOLEAN :
                  call' = [call EXCEPT ![t] =
                             IF ok /\ Loads(c.img.path)
                                /\ new[1] >= 1 /\ new[2] >= 1
                             THEN [Step(c, "create", "resize") EXCEPT
                                       !.img = Resized(c.img, new),
                                       !.fp = @ \ {1}]
                             ELSE Raise(c, SingleWrap("Exception"))]
           ELSE call' = [call EXCEPT ![t].pc = "create"]
        /\ UNCHANGED <<quality, metadata, dirs, geo>>

\* c = canvas.Canvas(output_path, pagesize=(page_width, page_height)), an
\* exception becoming a PDFError
SingleCreate(t) ==
    LET c == call[t]
    IN  /\ c.pc = "create"
        /\ \E ok \in BOOLEAN :
             call' = [call EXCEPT ![t] =
                        IF ok
                        THEN [Step(c, "metadata", "create") EXCEPT
                                  !.doc = NewDoc(c.output_path,
                                                 PageSizeValue(c.page_size))]
                        ELSE Raise(c, SingleWrap("PDFError"))]
        /\ UNCHANGED <<quality, metadata, dirs, geo>>

\* if self.metadata: setTitle, setAuthor, setSubject, setKeywords, and
\* setCreator if the creator is not empty
SingleMetadata(t) ==
    LET c == call[t]
    IN  /\ c.pc = "metadata"
        /\ call' = [call EXCEPT ![t] =
                      [Step(c, "draw", "metadata") EXCEPT
                          !.doc.info =
                              [metadata EXCEPT
                                  !.creator = IF metadata.creator # ""
                                              THEN metadata.creator
                                              ELSE Unset]]]
        /\ UNCHANGED <<quality, metadata, dirs, geo>>

\* the placement, then c.drawImage(image_path, x, y, width=img_width,
\* height=img_height): the document writer reads the file at image_path; an
\* exception becomes a PDFError
SingleDraw(t) ==
    LET c == call[t]
        page == PageSizeValue(c.page_size)
    IN  /\ c.pc = "draw"
        /\ \E xy \in {InlinePosition(c.img.w, c.img.h, page[1], page[2],
                                      c.position)},
              ok \in BOOLEAN :
             call' = [call EXCEPT ![t] =
                        IF ok /\ Loads(c.image_paths[1])
                        THEN [Step(c, "save", "draw") EXCEPT
                                  !.width = c.img.w, !.height = c.img.h,
                                  !.xy = xy,
                                  !.doc = DrawImage(c.doc,
                                                    Decoded(c.image_paths[1]),
                                                    xy, c.img.w, c.img.h,
                                                    FALSE)]
                        ELSE Raise(c, SingleWrap("PDFError"))]
        /\ UNCHANGED <<quality, metadata, dirs, geo>>

\* c.save(), an exception becoming a PDFError.  Nothing closes img: on
\* return its file, if still open, is closed when the interpreter collects
\* the image, at once or later; an exception keeps the frame and img alive
SingleSave(t) ==
    LET c == call[t]
    IN  /\ c.pc = "save"
        /\ \E ok \in BOOLEAN, collected \in {TRUE} \cup {c.fp = {}} :
             call' = [call EXCEPT ![t] =
                        IF ok /\ CanWrite(c.output_path)
                        THEN [Step(c, "done", "save") EXCEPT
                                  !.doc = Saved(c.doc),
                                  !.fp = IF collected THEN {} ELSE @]
                        ELSE Raise(c, SingleWrap("PDFError"))]
        /\ UNCHANGED <<quality, metadata, dirs, geo>>

(***************************************************************************)
(* convert_multiple_images, statement by statement.  Nothing in it catches *)
(* an exception: what a collaborator raises reaches the caller as raised.  *)
(***************************************************************************)

\* entry with arguments among args: the parameter checks
ConvertMultipleImages(t, args) ==
    /\ Free(t)
    /\ \E a \in args :
         call' = [call EXCEPT ![t] =
                    IF BatchValidation(a) = "none"
                    THEN [Entered("batch", a) EXCEPT !.pc = "bcreate"]
                    ELSE Raise(Entered("batch", a), BatchValidation(a))]
    /\ UNCHANGED <<quality, metadata, dirs, geo>>

\* c = canvas.Canvas(output_path, pagesize=page_size)
BatchCreate(t) ==
    LET c == call[t]
    IN  /\ c.pc = "bcreate"
        /\ \E ok \in BOOLEAN :
             call' = [call EXCEPT ![t] =
                        IF ok
                        THEN [Step(c, "bmetadata", "create") EXCEPT
                                  !.doc = NewDoc(c.output_path,
                                                 PageSizeValue(c.page_size))]
                        ELSE Raise(c, "Exception")]
        /\ UNCHANGED <<quality, metadata, dirs, geo>>

\* setTitle, setAuthor, setSubject, setKeywords, setCreator
BatchMetadata(t) ==
    LET c == call[t]
    IN  /\ c.pc = "bmetadata"
        /\ call' = [call EXCEPT ![t] =
                      [Step(c, "bloop", "metadata") EXCEPT
                          !.doc.info = metadata, !.k = 1]]
        /\ UNCHANGED <<quality, metadata, dirs, geo>>

\* the next image_path of the loop: self._validate_image(image_path)
BatchValidateImage(t) ==
    LET c == call[t]
    IN  /\ c.pc = "bloop"
        /\ c.k <= Len(c.image_paths)
        /\ call' = [call EXCEPT ![t] =
                      IF Identified(c.image_paths[c.k])
                      THEN [c EXCEPT !.pc = "bopen"]
                      ELSE Raise(c, "ImageError")]
        /\ UNCHANGED <<quality, metadata, dirs, geo>>

\* image = Image.open(image_path)
BatchOpen(t) ==
    LET c == call[t]
    IN  /\ c.pc = "bopen"
        /\ call' = [call EXCEPT ![t] =
                      [Step(c, "brotate", "decode") EXCEPT
                          !.img = Decoded(c.image_paths[c.k]),
                          !.fp = @ \cup {c.k}]]
        /\ UNCHANGED <<quality, metadata, dirs, geo>>

\* if rotate in [90, 180, 270]: image = image.rotate(rotate, expand=True)
BatchRotate(t) ==
    LET c == call[t]
    IN  /\ c.pc = "brotate"
        /\ IF c.rotate \in {90, 180, 270}
           THEN \E ok \in BOOLEAN :
                  call' = [call EXCEPT ![t] =
                             IF ok /\ Loads(c.img.path)
                             THEN [Step(c, "bsize", "rotate") EXCEPT
                                       !.img = Rotated(c.img, c.rotate),
                                       !.fp = @ \ {c.k}]
                             ELSE Raise(c, "OSError")]
           ELSE call' = [call EXCEPT ![t].pc = "bsize"]
        /\ UNCHANGED <<quality, metadata, dirs, geo>>

\* width, height from _get_image_size or image.size; x, y from
\* _calculate_position; if quality is not None: self.quality = quality
BatchSize(t) ==
    LET c == call[t]
        page == PageSizeValue(c.page_size)
    IN  /\ c.pc = "bsize"
        /\ \E size \in {IF c.resize
                         THEN GetImageSize(c.img.w, c.img.h, page)
                         ELSE <<c.img.w, c.img.h>>} :
           IF c.quality # None /\ QualityCheck(c.quality[1]) # "none"
           THEN /\ call' = [call EXCEPT ![t] =
                              Raise(c, QualityCheck(c.quality[1]))]
                /\ UNCHANGED quality
           ELSE /\ call' = [call EXCEPT ![t] =
                              [c EXCEPT !.pc = "bdraw",
                                        !.width = size[1], !.height = size[2],
                                        !.xy = CalculatePosition(size[1], size[2],
                                                                 page, c.position)]]
                /\ quality' = IF c.quality # None THEN c.quality[1] ELSE quality
        /\ UNCHANGED <<metadata, dirs, geo>>

\* a drawImage that is handed the first image of the list on every page
BatchDrawFirst(t) ==
    LET c == call[t]
    IN  /\ c.pc = "bdraw"
        /\ \E ok \in BOOLEAN :
             call' = [call EXCEPT ![t] =
                        IF ok /\ Loads(c.img.path)
                        THEN [Step(c, "bshow", "draw") EXCEPT
                                  !.doc = DrawImage(c.doc,
                                                    Decoded(c.image_paths[1]),
                                                    c.xy, c.width, c.height,
                                                    TRUE),
                                  !.fp = @ \ {c.k}]
                        ELSE Raise(c, "OSError")]
        /\ UNCHANGED <<quality, metadata, dirs, geo>>

\* c.drawImage(ImageReader(image), x, y, width=width, height=height,
\* preserveAspectRatio=True, mask='auto'): the document writer loads the
\* pixel data of image
BatchDraw(t) ==
    LET c == call[t]
    IN  /\ c.pc = "bdraw"
        /\ \E ok \in BOOLEAN :
             call' = [call EXCEPT ![t] =
                        IF ok /\ Loads(c.img.path)
                        THEN [Step(c, "bshow", "draw") EXCEPT
                                  !.doc = DrawImage(c.doc, c.img, c.xy,
                                                    c.width, c.height, TRUE),
                                  !.fp = @ \ {c.k}]
                        ELSE Raise(c, "OSError")]
        /\ UNCHANGED <<quality, metadata, dirs, geo>>

\* a showPage followed by setting the metadata again for the next page
BatchShowPageReattach(t) ==
    LET c == call[t]
    IN  /\ c.pc = "bshow"
        /\ call' = [call EXCEPT ![t] =
                      [Step(Step(c, "bloop", "showPage"), "bloop", "metadata")
                          EXCEPT !.doc = ShowPage(c.doc), !.k = c.k + 1]]
        /\ UNCHANGED <<quality, metadata, dirs, geo>>

\* c.showPage(), and on to the next image_path
BatchShowPage(t) ==
    LET c == call[t]
    IN  /\ c.pc = "bshow"
        /\ call' = [call EXCEPT ![t] =
                      [Step(c, "bloop", "showPage") EXCEPT
                          !.doc = ShowPage(c.doc), !.k = c.k + 1]]
        /\ UNCHANGED <<quality, metadata, dirs, geo>>

\* after the loop: c.save()
BatchSave(t) ==
    LET c == call[t]
    IN  /\ c.pc = "bloop"
        /\ c.k > Len(c.image_paths)
        /\ \E ok \in BOOLEAN :
             call' = [call EXCEPT ![t] =
                        IF ok /\ CanWrite(c.output_path)
                        THEN [Step(c, "done", "save") EXCEPT
                                  !.doc = Saved(c.doc)]
                        ELSE Raise(c, "OSError")]
        /\ UNCHANGED <<quality, metadata, dirs, geo>>

(***************************************************************************)
(* The converter's properties, and the end of a call.                      *)
(***************************************************************************)

\* converter.metadata = PDFMetadata(...): the construction validates, the
\* setter stores what it is given
SetMetadata(t, values) ==
    /\ Free(t)
    /\ \E md \in values :
         /\ call' = [call EXCEPT ![t] =
                       Raise([Idle EXCEPT !.op = "set_metadata", !.md = md],
                             PostInit(md))]
         /\ metadata' = IF PostInit(md) = "none" THEN md ELSE metadata
    /\ UNCHANGED <<quality, dirs, geo>>

\* converter.quality = value
SetQuality(t, values) ==
    /\ Free(t)
    /\ \E value \in values :
         /\ call' = [call EXCEPT ![t] =
                       Raise([Idle EXCEPT !.op = "set_quality",
                                          !.quality = Some(value),
                                          !.entry.quality = Some(quality)],
                             QualityCheck(value))]
         /\ quality' = IF QualityCheck(value) = "none" THEN value ELSE quality
    /\ UNCHANGED <<metadata, dirs, geo>>

\* the call has returned or raised: the caller goes on
Return(t) ==
    /\ call[t].pc = "done"
    /\ call' = [call EXCEPT ![t] = Idle]
    /\ UNCHANGED <<quality, metadata, dirs, geo>>

(***************************************************************************)
(* The multiple command of the command line, statement by statement.       *)
(***************************************************************************)

\* the files of the current directory
Files == {p \in ImagePaths : ImageKind(p) # "missing"}

\* the glob patterns given on the command line
Patterns == {"*.jpg", "*.png", "*.gif", "*[or].*"}

\* the files a pattern matches
Matches(input_pattern) ==
    CASE input_pattern = "*.jpg" -> {"photo.jpg", "broken.jpg"} \cap Files
      [] input_pattern = "*.png" -> {"banner.png"} \cap Files
      [] input_pattern = "*[or].*" -> {"banner.png", "photo.jpg"} \cap Files
      [] OTHER -> {}

\* the place of a path in the order of strings
Rank(path) ==
    CASE path = "banner.png" -> 1
      [] path = "broken.jpg" -> 2
      [] path = "missing.jpg" -> 3
      [] path = "notes.txt" -> 4
      [] OTHER -> 5

\* str < str
PathLess(p, q) == Rank(p) < Rank(q)

\* the lists glob.glob may return for a set of matches: in any order
Listings(matches) ==
    {l \in [1..Cardinality(matches) -> matches] :
        \A i, j \in DOMAIN l : i # j => l[i] # l[j]}

\* value or ""
OrEmpty(value) == IF value = None THEN "" ELSE value[1]

\* position.upper()
Upper(position) ==
    CASE position = "center" -> "CENTER"
      [] position = "top_left" -> "TOP_LEFT"
      [] position = "top_right" -> "TOP_RIGHT"
      [] position = "bottom_left" -> "BOTTOM_LEFT"
      [] position = "bottom_right" -> "BOTTOM_RIGHT"
      [] OTHER -> position

\* the command is invoked with a command line among invocations:
\* converter = ImageToPDF()
Multiple(t, invocations) ==
    /\ Free(t)
    /\ \E i \in invocations :
         call' = [call EXCEPT ![t] =
                    [Idle EXCEPT !.op = "multiple", !.pc = "cli_metadata",
                                 !.cli = i]]
    /\ quality' = InitQuality
    /\ metadata' = InitMetadata
    /\ UNCHANGED <<dirs, geo>>

\* metadata = PDFMetadata(title=title or "", ...), whose __post_init__ may
\* raise; converter.metadata = metadata
MultipleMetadata(t) ==
    LET c == call[t]
        md == PDFMetadata(OrEmpty(c.cli.title), OrEmpty(c.cli.author),
                          OrEmpty(c.cli.subject), OrEmpty(c.cli.keywords),
                          DefaultCreator)
    IN  /\ c.pc = "cli_metadata"
        /\ IF PostInit(md) = "none"
           THEN /\ call' = [call EXCEPT ![t] =
                              [c EXCEPT !.pc = "cli_glob", !.md = md]]
                /\ metadata' = md
           ELSE /\ call' = [call EXCEPT ![t] =
                              Raise([c EXCEPT !.md = md], PostInit(md))]
                /\ UNCHANGED metadata
        /\ UNCHANGED <<quality, dirs, geo>>

\* image_paths = sorted(glob.glob(input_pattern)); with no path the message
\* and return, else the entry of converter.convert_multiple_images(...)
MultipleGlob(t) ==
    LET c == call[t]
    IN  /\ c.pc = "cli_glob"
        /\ \E listing \in Listings(Matches(c.cli.input_pattern)) :
             LET image_paths == SortSeq(listing, PathLess)
                 a == [image_paths |-> image_paths,
                       output_path |-> c.cli.output_path,
                       page_size |-> c.cli.page_size,
                       rotate |-> c.cli.rotate,
                       resize |-> c.cli.resize,
                       position |-> Upper(c.cli.position),
                       quality |-> Some(c.cli.quality)]
                 entered == [Entered("batch", a) EXCEPT !.cli = c.cli,
                                                        !.md = c.md]
             IN  call' = [call EXCEPT ![t] =
                            IF image_paths = <<>>
                            THEN [c EXCEPT !.pc = "exit",
                                           !.cli.echo = Append(@, "no_match")]
                            ELSE IF BatchValidation(a) = "none"
                            THEN [entered EXCEPT !.pc = "bcreate"]
                            ELSE Raise(entered, BatchValidation(a))]
        /\ UNCHANGED <<quality, metadata, dirs, geo>>

\* convert_multiple_images has returned: the two messages; or an exception
\* has left the command
MultipleEcho(t) ==
    LET c == call[t]
    IN  /\ c.cli.cmd = "multiple"
        /\ c.pc = "done"
        /\ call' = [call EXCEPT ![t] =
                      IF c.err = "none"
                      THEN [c EXCEPT !.pc = "exit",
                                     !.cli.echo = @ \o <<"created", "count">>]
                      ELSE [c EXCEPT !.pc = "exit"]]
        /\ UNCHANGED <<quality, metadata, dirs, geo>>

\* the process of the command ends
Exit(t) ==
    /\ call[t].pc = "exit"
    /\ call' = [call EXCEPT ![t] = Idle]
    /\ UNCHANGED <<quality, metadata, dirs, geo>>

(***************************************************************************)
(* The geometry helpers applied on their own: geo holds the arguments,     *)
(* and after the application the helper applied and its result.            *)
(***************************************************************************)

NoGeo ==
    [op |-> "none", w |-> 0, h |-> 0, page |-> "", position |-> "",
     size |-> <<0, 0>>, xy |-> <<FZero, FZero>>]

\* self._get_image_size(image, page_size.value) for an image of size (w, h)
ApplyGetImageSize ==
    /\ geo.op = "size_args"
    /\ geo' = [geo EXCEPT !.op = "get_image_size",
                          !.size = GetImageSize(geo.w, geo.h,
                                                PageSizeValue(geo.page))]
    /\ UNCHANGED <<quality, metadata, dirs, call>>

\* the resize computation of convert_single_image
ApplyInlineResize ==
    /\ geo.op = "size_args"
    /\ geo' = [geo EXCEPT !.op = "inline_resize",
                          !.size = InlineResize(geo.w, geo.h,
                                                PageSizeValue(geo.page)[1],
                                                PageSizeValue(geo.page)[2])]
    /\ UNCHANGED <<quality, metadata, dirs, call>>

\* self._calculate_position((w, h), page_size.value, position)
ApplyCalculatePosition ==
    /\ geo.op = "position_args"
    /\ geo' = [geo EXCEPT !.op = "calculate_position",
                          !.xy = CalculatePosition(geo.w, geo.h,
                                                   PageSizeValue(geo.page),
                                                   geo.position)]
    /\ UNCHANGED <<quality, metadata, dirs, call>>

\* the placement computation of convert_single_image
ApplyInlinePosition ==
    /\ geo.op = "position_args"
    /\ geo' = [geo EXCEPT !.op = "inline_position",
                          !.xy = InlinePosition(geo.w, geo.h,
                                                PageSizeValue(geo.page)[1],
                                                PageSizeValue(geo.page)[2],
                                                geo.position)]
    /\ UNCHANGED <<quality, metadata, dirs, call>>

(***************************************************************************)
(* Inputs and specifications.                                              *)
(***************************************************************************)

\* the longest image_paths list of a batch call
MaxImages == 2

\* the sequences over S of length at most n
RECURSIVE SeqsUpTo(_, _)
SeqsUpTo(S, n) ==
    IF n = 0 THEN {<<>>}
    ELSE LET shorter == SeqsUpTo(S, n - 1)
         IN  shorter \cup {Append(q, x) : q \in shorter, x \in S}

\* valid arguments that vary what the call meets on its way: the images,
\* the output directory, the rotation, resize and quality
FlowArgs(paths) ==
    [image_paths : paths, output_path : OutputPaths, page_size : {"A4"},
     rotate : {0, 90, 180, 270}, resize : BOOLEAN, position : {"CENTER"},
     quality : {None, Some(80)}]

\* valid arguments that vary the geometry: every page size and position
LayoutArgs ==
    [image_paths : {<<"photo.jpg">>, <<"banner.png">>},
     output_path : {"out.pdf"}, page_size : PageSize, rotate : {0, 90},
     resize : BOOLEAN, position : ImagePosition, quality : {Some(80)}]

\* arguments with one invalid parameter
InvalidArgs(paths) ==
    LET base == [image_paths : paths, output_path : OutputPaths,
                 page_size : {"A4"}, rotate : {0}, resize : {TRUE},
                 position : {"CENTER"}, quality : {None, Some(80)}]
    IN  UNION {{[a EXCEPT !.page_size = "INVALID"],
                [a EXCEPT !.page_size = "CENTER"],
                [a EXCEPT !.rotate = 45],
                [a EXCEPT !.position = "middle"],
                [a EXCEPT !.quality = Some(101)],
                [a EXCEPT !.quality = Some(-1)]} : a \in base}

SinglePaths == {<<p>> : p \in ImagePaths}
SingleArgs == FlowArgs(SinglePaths) \cup LayoutArgs \cup InvalidArgs(SinglePaths)

BatchPaths == SeqsUpTo(ImagePaths, MaxImages)
BatchArgs == FlowArgs(BatchPaths) \cup LayoutArgs \cup InvalidArgs(SinglePaths)

\* the values assigned to converter.quality and converter.metadata
QualityValues == {80, 101}
MetadataValues ==
    {PDFMetadata("Test PDF", "Test Author", "Test Subject", "test, pdf",
                 DefaultCreator),
     PDFMetadata("", "Test Author", "", "", DefaultCreator)}

Init ==
    /\ quality = InitQuality
    /\ metadata = InitMetadata
    /\ dirs = {}
    /\ call = [t \in {1} |-> Idle]
    /\ geo = NoGeo

Next ==
    \E t \in DOMAIN call :
        \/ SetQuality(t, QualityValues)
        \/ SetMetadata(t, MetadataValues)
        \/ ConvertSingleImage(t, SingleArgs)
        \/ SingleCheckDir(t)
        \/ SingleMakeDirs(t)
        \/ SingleOpen(t)
        \/ SingleRotate(t)
        \/ SingleResize(t)
        \/ SingleCreate(t)
        \/ SingleMetadata(t)
        \/ SingleDraw(t)
        \/ SingleSave(t)
        \/ ConvertMultipleImages(t, BatchArgs)
        \/ BatchCreate(t)
        \/ BatchMetadata(t)
        \/ BatchValidateImage(t)
        \/ BatchOpen(t)
        \/ BatchRotate(t)
        \/ BatchSize(t)
        \/ BatchDraw(t)
        \/ BatchShowPage(t)
        \/ BatchSave(t)
        \/ Return(t)

Spec == Init /\ [][Next]_vars

\* the image dimensions the geometry helpers are applied to: every small
\* size, and sizes around and beyond the page dimensions
MaxSmallDim == 24
ScaleDims == (1..MaxSmallDim) \cup {100, 640, 1000, 1620, 3000}
PlaceDims == {1, 100, 595, 596, 612, 1000, 1619, 1620, 3000}

\* the arguments of the geometry helpers
GeoArgs ==
    [op : {"size_args"}, w : ScaleDims, h : ScaleDims, page : PageSize,
     position : {""}, size : {<<0, 0>>}, xy : {<<FZero, FZero>>}]
    \cup
    [op : {"position_args"}, w : PlaceDims, h : PlaceDims, page : PageSize,
     position : ImagePosition, size : {<<0, 0>>}, xy : {<<FZero, FZero>>}]

InitGeom ==
    /\ quality = InitQuality
    /\ metadata = InitMetadata
    /\ dirs = {}
    /\ call = [t \in {1} |-> Idle]
    /\ geo \in GeoArgs

NextGeom ==
    \/ ApplyGetImageSize
    \/ ApplyInlineResize
    \/ ApplyCalculatePosition
    \/ ApplyInlinePosition

SpecGeom == InitGeom /\ [][NextGeom]_vars

\* the texts of the metadata fields
Texts == {"", "Report", "MKPDF"}

\* every PDFMetadata over the texts
MetadataTexts ==
    {PDFMetadata(title, author, subject, keywords, creator) :
        title \in Texts, author \in Texts, subject \in Texts,
        keywords \in Texts, creator \in Texts}

NextMeta ==
    \E t \in DOMAIN call :
        \/ SetMetadata(t, MetadataTexts)
        \/ Return(t)

SpecMeta == Init /\ [][NextMeta]_vars

\* the threads of a caller that share one converter
Threads == {1, 2}

\* each thread converts to output paths of its own, in the current
\* directory or in a directory shared with the other thread
ThreadOutputPaths(t) ==
    IF t = 1 THEN {"out.pdf", "new/out.pdf"} ELSE {"b.pdf", "new/b.pdf"}

\* the arguments of the calls a thread makes
ThreadArgs(t) ==
    [image_paths : {<<"photo.jpg">>}, output_path : ThreadOutputPaths(t),
     page_size : {"A4"}, rotate : {0, 90}, resize : BOOLEAN,
     position : {"CENTER"}, quality : {Some(95)}]

InitConc ==
    /\ quality = InitQuality
    /\ metadata = InitMetadata
    /\ dirs = {}
    /\ call = [t \in Threads |-> Idle]
    /\ geo = NoGeo

\* the statements of the threads' calls interleave
NextConc ==
    \E t \in DOMAIN call :
        \/ ConvertSingleImage(t, ThreadArgs(t))
        \/ SingleCheckDir(t)
        \/ SingleMakeDirs(t)
        \/ SingleOpen(t)
        \/ SingleRotate(t)
        \/ SingleResize(t)
        \/ SingleCreate(t)
        \/ SingleMetadata(t)
        \/ SingleDraw(t)
        \/ SingleSave(t)
        \/ Return(t)

SpecConc == InitConc /\ [][NextConc]_vars

\* the command lines of the multiple command: click has checked the
\* choices and ranges and filled in the defaults
Invocations ==
    [cmd : {"multiple"}, input_pattern : Patterns,
     output_path : {"out.pdf", "denied/out.pdf"}, page_size : {"A4"},
     rotate : {0, 90}, resize : {TRUE}, position : {"center", "top_left"},
     quality : {95, 80}, title : {None, Some("Report")},
     author : {None, Some("MKPDF")}, subject : {None},
     keywords : {None, Some("Report")}, echo : {<<>>}]

\* invocations of the command, one after the other
NextCli ==
    \E t \in DOMAIN call :
        \/ Multiple(t, Invocations)
        \/ MultipleMetadata(t)
        \/ MultipleGlob(t)
        \/ BatchCreate(t)
        \/ BatchMetadata(t)
        \/ BatchValidateImage(t)
        \/ BatchOpen(t)
        \/ BatchRotate(t)
        \/ BatchSize(t)
        \/ BatchDraw(t)
        \/ BatchShowPage(t)
        \/ BatchSave(t)
        \/ MultipleEcho(t)
        \/ Exit(t)

SpecCli == Init /\ [][NextCli]_vars

(***************************************************************************)
(* Properties of the conversion calls.                                     *)
(***************************************************************************)

\* the positions of the collaborator call ev in a log
Positions(log, ev) == {i \in 1..Len(log) : log[i] = ev}

\* a parameter of the call c is invalid: the page size or the position is
\* no variant, the rotation is none of the four, or a quality is specified
\* outside [0, 100]
InvalidParameters(c) ==
    \/ c.page_size \notin PageSize
    \/ c.rotate \notin {0, 90, 180, 270}
    \/ c.position \notin ImagePosition
    \/ c.quality # None /\ (c.quality[1] < 0 \/ c.quality[1] > 100)

\* C1: a convert_single call with an invalid page size, rotation, position
\* or specified quality fails with ValidationError and no filesystem step
\* has happened before the failure: no directory is created, the image is
\* not decoded, no document is opened and nothing is saved, whether or not
\* the image path exists.
C1_ValidationBeforeIO ==
    \A t \in DOMAIN call :
        LET c == call[t]
        IN  c.op = "single" /\ InvalidParameters(c) =>
              /\ c.pc = "done"
              /\ c.err = "ValidationError"
              /\ c.log = <<>>
              /\ ~c.doc.open
              /\ ~c.doc.saved

\* a call with quality 101 for a missing image and an output directory that
\* does not exist has failed with ValidationError
C1_Witness ==
    \E t \in DOMAIN call :
        /\ call[t].op = "single"
        /\ call[t].quality = Some(101)
        /\ call[t].image_paths = <<"missing.jpg">>
        /\ call[t].output_path = "new/out.pdf"
        /\ "new" \notin dirs
        /\ call[t].err = "ValidationError"

\* C2: every failing convert_single call fails with one of ValidationError,
\* ImageError and PDFError, whatever step fails, the call ends with the
\* failure, and no step is made twice.
C2_ThreeErrorKinds ==
    \A t \in DOMAIN call :
        LET c == call[t]
        IN  c.op = "single" =>
              /\ c.err # "none" => c.err \in MKPDFErrors /\ c.pc = "done"
              /\ \A i, j \in 1..Len(c.log) : c.log[i] = c.log[j] => i = j

\* the rotation of a decoded image has failed and the call has ended with
\* a PDFError
C2_Witness ==
    \E t \in DOMAIN call :
        /\ call[t].op = "single"
        /\ call[t].image_paths = <<"photo.jpg">>
        /\ call[t].rotate = 90
        /\ call[t].log = <<"decode">>
        /\ call[t].pc = "done"
        /\ call[t].err = "PDFError"

DirectoryAvailable(path) ==
    \/ Dirname(path) = ""
    \/ Dirname(path) \in dirs
    \/ Dirname(path) \in Creatable

FirstUndecodable(paths) ==
    LET bad == {k \in 1..Len(paths) : ~Loads(paths[k])}
    IN  IF bad = {} THEN 0 ELSE Least(bad)

\* C4: a convert_batch call in which the image at some index k is missing
\* or fails to decode fails with ImageError at that image: no image after
\* index k is processed, the document is never saved, and only the k - 1
\* pages before it were drawn.
C4_BatchAbortsWithImageError ==
    \A t \in DOMAIN call :
        LET c == call[t]
            k == FirstUndecodable(c.image_paths)
        IN  /\ c.op = "batch"
            /\ ~InvalidParameters(c)
            /\ k # 0
            /\ c.pc = "done"
            => /\ c.err = "ImageError"
               /\ c.k = k
               /\ Len(c.doc.pages) = k - 1
               /\ ~c.doc.saved
               /\ Positions(c.log, "save") = {}

\* C5: a successful convert_batch call over n image paths opens the
\* document once, emits exactly n pages, page i carrying exactly one draw
\* of the i-th image of the list, each draw followed by one showPage, and
\* saves the document exactly once, after the last image has been drawn.
C5_BatchPagesInOrder ==
    \A t \in DOMAIN call :
        LET c == call[t]
            n == Len(c.image_paths)
        IN  c.op = "batch" /\ c.pc = "done" /\ c.err = "none" =>
              /\ Positions(c.log, "create") = {1}
              /\ Len(c.doc.pages) = n
              /\ \A i \in 1..n :
                    /\ Len(c.doc.pages[i]) = 1
                    /\ c.doc.pages[i][1].src.path = c.image_paths[i]
              /\ Cardinality(Positions(c.log, "draw")) = n
              /\ Cardinality(Positions(c.log, "showPage")) = n
              /\ \A i \in Positions(c.log, "draw") : c.log[i + 1] = "showPage"
              /\ Positions(c.log, "save") = {Len(c.log)}
              /\ c.doc.saved

\* a batch of two different images has succeeded
C5_Witness ==
    \E t \in DOMAIN call :
        /\ call[t].op = "batch"
        /\ call[t].image_paths = <<"banner.png", "photo.jpg">>
        /\ call[t].pc = "done"
        /\ call[t].err = "none"
        /\ Len(call[t].doc.pages) = 2

\* C6: in convert_single and convert_batch the configured metadata is
\* attached to the document exactly once per call, after the document is
\* opened and before the first image is drawn or the first page emitted,
\* and is not set again for later pages.
C6_MetadataOnce ==
    \A t \in DOMAIN call :
        LET c == call[t]
            attached == Positions(c.log, "metadata")
            emitted  == Positions(c.log, "draw") \cup Positions(c.log, "showPage")
        IN  c.op \in {"single", "batch"} =>
              /\ Cardinality(attached) <= 1
              /\ \A i \in attached : \E j \in Positions(c.log, "create") : j < i
              /\ \A i \in emitted : \E j \in attached : j < i
              /\ attached # {} => c.doc.info = metadata
              /\ attached = {} => c.doc.info = NoMetadata
              /\ c.pc = "done" /\ c.err = "none" => attached # {}

\* a batch of two images has succeeded with the assigned metadata on the
\* document
C6_Witness ==
    \E t \in DOMAIN call :
        /\ call[t].op = "batch"
        /\ Len(call[t].image_paths) = 2
        /\ call[t].pc = "done"
        /\ call[t].err = "none"
        /\ call[t].doc.info.title = "Test PDF"
        /\ Cardinality(Positions(call[t].log, "showPage")) = 2

\* C7: constructing a PDFMetadata with an empty title or an empty author
\* fails with ValidationError, and constructing it with a non-empty title,
\* author and creator succeeds whatever the text of any field.
C7_MetadataValidation ==
    \A t \in DOMAIN call :
        LET c == call[t]
        IN  c.op = "set_metadata" =>
              /\ c.md.title = "" \/ c.md.author = "" => c.err = "ValidationError"
              /\ c.md.title # "" /\ c.md.author # "" /\ c.md.creator # "" =>
                    c.err = "none" /\ metadata = c.md

\* a PDFMetadata with an empty subject and empty keywords has been
\* constructed and assigned
C7_Witness ==
    \E t \in DOMAIN call :
        /\ call[t].op = "set_metadata"
        /\ call[t].md = PDFMetadata("Report", "MKPDF", "", "", "Report")
        /\ call[t].err = "none"
        /\ metadata = call[t].md

\* the drawing on the page of a convert_single call that has drawn
Drawn(doc) == IF doc.cur # <<>> THEN doc.cur[1] ELSE doc.pages[1][1]

\* C10: in convert_single with rotation 90, 180 or 270 the pixel source
\* handed to the draw step is the decoded image after rotation, and after
\* resampling when resize is enabled, not the unrotated original.
C10_DrawsRotatedImage ==
    \A t \in DOMAIN call :
        LET c == call[t]
        IN  /\ c.op = "single"
            /\ c.rotate \in {90, 180, 270}
            /\ Positions(c.log, "draw") # {}
            => /\ Drawn(c.doc).src = c.img
               /\ Drawn(c.doc).src.rot = c.rotate
               /\ c.resize => Drawn(c.doc).src.resampled

(***************************************************************************)
(* Properties of the geometry helpers, stated in exact arithmetic.         *)
(***************************************************************************)

\* the greater of two integers
Max(a, b) == IF a > b THEN a ELSE b

\* the lesser of two integers
Min(a, b) == IF a < b THEN a ELSE b

\* b <= c for two bit sequences of any lengths
BitsLeq(b, c) ==
    LET len == Max(Len(b), Len(c))
    IN  ~BitsLess(PadTo(c, len), PadTo(b, len))

\* floor(bits * 2^e / d) for a bit sequence, e <= 0 and a positive int d
FloorDiv(bits, e, d) ==
    LET q == BitsDivMod(bits, d).q
    IN  IF Len(q) + e <= 0 THEN 0 ELSE BitsNat(Strip(SubSeq(q, 1, Len(q) + e)))

\* scale_to_fit in exact arithmetic, for bounds of one binary exponent:
\* which dimensions attain r = min(max_width/width, max_height/height),
\* and (floor(width * r), floor(height * r))
ScaleToFit(width, height, max_size) ==
    LET max_width  == max_size[1]
        max_height == max_size[2]
        byWidth  == BitsLeq(BitsMul(max_width.m, height),
                            BitsMul(max_height.m, width))
        byHeight == BitsLeq(BitsMul(max_height.m, width),
                            BitsMul(max_width.m, height))
    IN  [byWidth |-> byWidth, byHeight |-> byHeight,
         size |-> IF byWidth
                  THEN <<FloorDiv(max_width.m, max_width.e, 1),
                         FloorDiv(BitsMul(max_width.m, height),
                                  max_width.e, width)>>
                  ELSE <<FloorDiv(BitsMul(max_height.m, width),
                                  max_height.e, height),
                         FloorDiv(max_height.m, max_height.e, 1)>>]

\* C8: for every image size and bound with strictly positive components
\* _get_image_size and the inline resize of convert_single return
\* (floor(width * r), floor(height * r)) for the single factor
\* r = min(max_width/width, max_height/height); the result is within the
\* bound, and the dimension that attains the minimum equals the floor of
\* its bound.
C8_ScaleToFitExact ==
    geo.op \in {"get_image_size", "inline_resize"} =>
        LET max_size == PageSizeValue(geo.page)
            exact    == ScaleToFit(geo.w, geo.h, max_size)
        IN  /\ max_size[1].e = max_size[2].e
            /\ geo.size = exact.size
            /\ geo.size[1] <= FloorDiv(max_size[1].m, max_size[1].e, 1)
            /\ geo.size[2] <= FloorDiv(max_size[2].m, max_size[2].e, 1)
            /\ exact.byWidth =>
                 geo.size[1] = FloorDiv(max_size[1].m, max_size[1].e, 1)
            /\ exact.byHeight =>
                 geo.size[2] = FloorDiv(max_size[2].m, max_size[2].e, 1)

\* |x - d| as a bit sequence, in units of 2^Min(x.e, d.e), for a float x
\* that is not zero and an exact number d = d.s * d.bits * 2^d.e
Distance(x, d) ==
    LET lo  == Min(x.e, d.e)
        a   == x.m \o Zeros(x.e - lo)
        b   == d.bits \o Zeros(d.e - lo)
        len == Max(Len(a), Len(b))
    IN  IF BitsLess(PadTo(a, len), PadTo(b, len))
        THEN Strip(BitsSub(PadTo(b, len), PadTo(a, len)))
        ELSE Strip(BitsSub(PadTo(a, len), PadTo(b, len)))

\* the float x is the number d
Exactly(x, d) ==
    IF x.m = <<>> THEN d.bits = <<>>
    ELSE d.bits # <<>> /\ x.s = d.s /\ Distance(x, d) = <<>>

\* the float x is within half a unit in its last place of the number d
Nearest(x, d) ==
    IF x.m = <<>> THEN d.bits = <<>>
    ELSE LET dist == Distance(x, d)
             k    == x.e - Min(x.e, d.e)
         IN  /\ d.bits # <<>>
             /\ x.s = d.s
             /\ \/ dist = <<>>
                \/ Len(dist) < k
                \/ Len(dist) = k /\ Ones(dist) = {1}

\* the number d is a float: it has at most MantissaBits significant bits
Representable(d) ==
    d.bits = <<>> \/ Greatest(Ones(d.bits)) - Least(Ones(d.bits)) < MantissaBits

\* twice the float x
Twice(x) == IF x.m = <<>> THEN x ELSE [x EXCEPT !.e = @ + 1]

\* what the position's formula makes of the anchor a along one axis, where
\* d is the exact page dimension minus the image dimension: side is "low"
\* when the image touches the left or bottom edge, "high" when it touches
\* the right or top edge, "middle" when the margins are equal
Anchored(side, a, d, Same(_, _)) ==
    CASE side = "low" -> a = FZero
      [] side = "high" -> Same(a, d)
      [] side = "middle" -> Same(Twice(a), d)

\* the side of the page the position names, along x and along y
SideX(position) ==
    CASE position = "CENTER" -> "middle"
      [] position \in {"TOP_LEFT", "BOTTOM_LEFT"} -> "low"
      [] position \in {"TOP_RIGHT", "BOTTOM_RIGHT"} -> "high"

SideY(position) ==
    CASE position = "CENTER" -> "middle"
      [] position \in {"BOTTOM_LEFT", "BOTTOM_RIGHT"} -> "low"
      [] position \in {"TOP_LEFT", "TOP_RIGHT"} -> "high"

\* C9, as claimed: for each of the five positions and every page and image
\* size _calculate_position returns exactly the anchor of the position's
\* formula, so that the image touches the page edges the position names
\* (x = 0 or x + width = page_width, y = 0 or y + height = page_height,
\* equal margins for CENTER).
C9_TouchesExactly ==
    geo.op = "calculate_position" =>
        LET page == PageSizeValue(geo.page)
        IN  /\ Anchored(SideX(geo.position), geo.xy[1],
                        ExactSubInt(page[1], geo.w), Exactly)
            /\ Anchored(SideY(geo.position), geo.xy[2],
                        ExactSubInt(page[2], geo.h), Exactly)

\* C9, amended: _calculate_position returns for each of the five positions
\* the float nearest to the anchor of the position's formula, with no
\* clamping: the anchor is negative when the image is larger than the page,
\* and the image touches the page edges the position names exactly when
\* the difference of the page and image dimensions is itself a float.
C9_AnchorsNearest ==
    geo.op = "calculate_position" =>
        LET page == PageSizeValue(geo.page)
            dx   == ExactSubInt(page[1], geo.w)
            dy   == ExactSubInt(page[2], geo.h)
        IN  /\ Anchored(SideX(geo.position), geo.xy[1], dx, Nearest)
            /\ Anchored(SideY(geo.position), geo.xy[2], dy, Nearest)
            /\ Representable(dx) =>
                 Anchored(SideX(geo.position), geo.xy[1], dx, Exactly)
            /\ Representable(dy) =>
                 Anchored(SideY(geo.position), geo.xy[2], dy, Exactly)
            /\ SideX(geo.position) # "low" /\ dx.s = -1 => geo.xy[1].s = -1
            /\ SideY(geo.position) # "low" /\ dy.s = -1 => geo.xy[2].s = -1

\* an image 1620 wide is placed at the top right of an A4 page: the anchor
\* is negative and x + width is not the page width
C9_Witness ==
    /\ geo.op = "calculate_position"
    /\ geo.position = "TOP_RIGHT"
    /\ geo.page = "A4"
    /\ geo.w = 1620
    /\ geo.xy[1].s = -1
    /\ ~Exactly(geo.xy[1], ExactSubInt(A4[1], 1620))

(***************************************************************************)
(* Properties of the converter's quality and of the batch call's errors.   *)
(***************************************************************************)

\* C11: a convert_single or convert_batch call that is given a quality q in
\* [0, 100] and succeeds leaves the converter's quality equal to q; a call
\* that is given no quality leaves the converter's quality as it was when
\* the call was entered.
C11_QualityFollowsCall ==
    \A t \in DOMAIN call :
        LET c == call[t]
        IN  c.op \in {"single", "batch"} /\ c.pc = "done" /\ c.err = "none" =>
              /\ c.quality # None => quality = c.quality[1]
              /\ c.quality = None => Some(quality) = c.entry.quality

\* C12: convert_batch checks the quality only when it is given: a call with
\* the quality omitted and otherwise valid parameters is not stopped at
\* validation (it ends without error or fails later, at an image or at the
\* document), and a given quality outside [0, 100] ends with ValidationError
\* with no document created.
C12_BatchQualityOptional ==
    \A t \in DOMAIN call :
        LET c == call[t]
        IN  c.op = "batch" /\ c.pc = "done" =>
              /\ c.quality = None /\ ~InvalidParameters(c) =>
                   c.err \notin {"ValidationError", "TypeError"}
              /\ c.quality # None /\ ~(0 <= c.quality[1] /\ c.quality[1] <= 100)
                   => c.err = "ValidationError" /\ c.doc = NoDoc /\ c.log = <<>>

\* C13: a convert_batch call with valid parameters, a quality given and
\* images that all decode, which fails because the document cannot be
\* created, drawn to or saved, ends with PDFError and with no other kind of
\* error.
C13_BatchDocumentFailureIsPDFError ==
    \A t \in DOMAIN call :
        LET c == call[t]
        IN  /\ c.op = "batch" /\ c.pc = "done" /\ c.err # "none"
            /\ ~InvalidParameters(c) /\ c.quality # None
            /\ \A i \in 1..Len(c.image_paths) : Loads(c.image_paths[i])
            => c.err = "PDFError"

(***************************************************************************)
(* Properties of concurrent and of repeated convert_single calls.          *)
(***************************************************************************)

\* the document convert_single_image saves when its statements run one
\* after the other with nothing failing, for the arguments of call c and
\* the metadata md of the converter
AloneDocument(c, md) ==
    LET page == PageSizeValue(c.page_size)
        path == c.image_paths[1]
        opened == Decoded(path)
        turned == IF c.rotate # 0 THEN Rotated(opened, c.rotate) ELSE opened
        img == IF c.resize
               THEN Resized(turned, InlineResize(turned.w, turned.h,
                                                 page[1], page[2]))
               ELSE turned
        xy == InlinePosition(img.w, img.h, page[1], page[2], c.position)
        info == [md EXCEPT !.creator = IF md.creator # "" THEN md.creator
                                       ELSE Unset]
    IN  Saved(DrawImage([NewDoc(c.output_path, page) EXCEPT !.info = info],
                        Decoded(path), xy, img.w, img.h, FALSE))

\* C14: concurrent convert_single calls on one converter, each with an
\* output path of its own, do not interfere: no call writes the converter's
\* quality or metadata, no call fails at creating an output directory that
\* can be created, and a call that succeeds has saved the document it
\* saves when it runs alone.
C14_ConcurrentCallsIndependent ==
    \A t \in DOMAIN call :
        LET c == call[t]
        IN  c.op = "single" =>
              /\ Some(quality) = c.entry.quality
              /\ metadata = c.entry.metadata
              /\ c.pc = "done" /\ c.err = "none" =>
                   c.doc = AloneDocument(c, c.entry.metadata)
              /\ c.pc = "done" /\ Dirname(c.output_path) \in Creatable =>
                   ~(c.err = "PDFError" /\ c.log = <<>>)

\* what two documents at different paths share: everything but the path
Structure(doc) == [doc EXCEPT !.path = ""]

\* C15: the document of a successful convert_single call is, but for its
\* path, a function of the call's inputs and of the converter's metadata:
\* one page with the image file drawn once at the anchor and with the
\* dimensions the inputs give, and the metadata; nothing of it depends on
\* the output path or on what earlier calls left in the converter or in the
\* file system.
C15_SameInputsSameDocument ==
    \A t \in DOMAIN call :
        LET c == call[t]
        IN  c.op = "single" /\ c.pc = "done" /\ c.err = "none" =>
              /\ Len(c.doc.pages) = 1 /\ Len(c.doc.pages[1]) = 1
              /\ c.doc.saved
              /\ Structure(c.doc) =
                   Structure(AloneDocument([c EXCEPT !.output_path = ""],
                                           c.entry.metadata))

\* a convert_single call with resize has succeeded on a converter whose
\* quality and metadata earlier calls have changed, with the output
\* directory created by an earlier call
C15_Witness ==
    \E t \in DOMAIN call :
        LET c == call[t]
        IN  /\ c.op = "single" /\ c.pc = "done" /\ c.err = "none"
            /\ c.resize /\ c.output_path = "new/out.pdf"
            /\ Positions(c.log, "makedirs") = {}
            /\ quality # InitQuality /\ metadata # InitMetadata

(***************************************************************************)
(* Properties of the multiple command.                                     *)
(***************************************************************************)

\* the list is in ascending order
Ascending(paths) ==
    \A i, j \in 1..Len(paths) : i < j => PathLess(paths[i], paths[j])

\* C16: an invocation of the multiple command whose pattern matches no file
\* ends, whatever options are given or omitted, with the "no matching
\* files" message, no exception and convert_multiple_images not invoked; an
\* invocation that invokes convert_multiple_images passes it the matching
\* files in sorted order.
C16_NoMatchIsMessage ==
    \A t \in DOMAIN call :
        LET c == call[t]
        IN  c.cli.cmd = "multiple" =>
              /\ c.pc = "exit" /\ Matches(c.cli.input_pattern) = {} =>
                   /\ c.cli.echo = <<"no_match">>
                   /\ c.err = "none"
                   /\ c.op # "batch"
              /\ c.op = "batch" =>
                   /\ Ascending(c.image_paths)
                   /\ {c.image_paths[i] : i \in 1..Len(c.image_paths)}
                        = Matches(c.cli.input_pattern)
                   /\ Len(c.image_paths) = Cardinality(Matches(c.cli.input_pattern))

(***************************************************************************)
(* Properties of the resources, the sizes and the order of the steps.      *)
(***************************************************************************)

\* C17: when a convert_single or convert_batch call has ended, by return or
\* by exception at any step, no image file the call has opened is still
\* open.
C17_HandlesReleased ==
    \A t \in DOMAIN call :
        LET c == call[t]
        IN  c.op \in {"single", "batch"} /\ c.pc = "done" => c.fp = {}

SizeAfterRotation(path, rotate) ==
    IF rotate \in {90, 270}
    THEN <<ImageSize(path)[2], ImageSize(path)[1]>>
    ELSE ImageSize(path)

\* C19: in convert_single and in convert_batch the rotation comes before
\* the sizing: the size scaled to the page when resize is set, and the size
\* placed and drawn as it is when resize is not set, is the size of the
\* image after the rotation, equal to the file's (width, height) for 0 and
\* 180 degrees and to (height, width) for 90 and 270.
C19_RotationBeforeSizing ==
    \A t \in DOMAIN call :
        LET c == call[t]
            page == PageSizeValue(c.page_size)
        IN  /\ c.op = "single" /\ c.pc \in {"save", "done"}
               /\ Positions(c.log, "draw") # {} =>
                 LET turned == SizeAfterRotation(c.image_paths[1], c.rotate)
                     size == IF c.resize
                             THEN InlineResize(turned[1], turned[2],
                                               page[1], page[2])
                             ELSE turned
                 IN  /\ <<c.width, c.height>> = size
                     /\ c.xy = InlinePosition(size[1], size[2], page[1],
                                              page[2], c.position)
                     /\ Drawn(c.doc).width = size[1]
                     /\ Drawn(c.doc).height = size[2]
                     /\ c.resize <=> Positions(c.log, "resize") # {}
                     /\ \A i \in Positions(c.log, "rotate"),
                          j \in Positions(c.log, "resize") : i < j
            /\ c.op = "batch" /\ c.pc \in {"bdraw", "bshow"} =>
                 LET turned == SizeAfterRotation(c.image_paths[c.k], c.rotate)
                     size == IF c.resize
                             THEN GetImageSize(turned[1], turned[2], page)
                             ELSE turned
                 IN  /\ <<c.width, c.height>> = size
                     /\ c.xy = CalculatePosition(size[1], size[2], page,
                                                 c.position)
                     /\ c.pc = "bshow" =>
                          /\ c.doc.cur[1].width = size[1]
                          /\ c.doc.cur[1].height = size[2]

\* a batch call without resize has drawn photo.jpg (640 x 480), rotated by
\* 90 degrees, as 480 x 640
C19_Witness ==
    \E t \in DOMAIN call :
        LET c == call[t]
        IN  /\ c.op = "batch" /\ c.pc = "bshow" /\ c.rotate = 90
            /\ ~c.resize /\ c.image_paths[c.k] = "photo.jpg"
            /\ c.doc.cur[1].width = 480 /\ c.doc.cur[1].height = 640

\* C20: in a convert_single call with valid parameters the output directory
\* exists when the image is decoded, created by the call before the decode
\* if it did not exist; when the directory cannot be created the call ends
\* with PDFError and no decode, whatever the image; and a call that fails
\* at saving the document ends with PDFError.
C20_DirectoryBeforeDecode ==
    \A t \in DOMAIN call :
        LET c == call[t]
        IN  c.op = "single" /\ ~InvalidParameters(c) =>
              /\ Positions(c.log, "decode") # {} => CanWrite(c.output_path)
              /\ \A i \in Positions(c.log, "makedirs"),
                    j \in Positions(c.log, "decode") : i < j
              /\ c.pc = "open" => CanWrite(c.output_path)
              /\ c.pc = "done" /\ ~CanWrite(c.output_path) =>
                   c.err = "PDFError" /\ c.log = <<>> /\ c.img = NoImage
              /\ c.pc = "done" /\ c.err # "none"
                 /\ Positions(c.log, "draw") # {} => c.err = "PDFError"

\* a call with a missing image and an output directory that cannot be
\* created has ended with PDFError and nothing decoded
C20_Witness ==
    \E t \in DOMAIN call :
        LET c == call[t]
        IN  /\ c.op = "single" /\ c.pc = "done" /\ c.err = "PDFError"
            /\ c.output_path = "denied/out.pdf"
            /\ c.image_paths = <<"missing.jpg">>
            /\ ~InvalidParameters(c)
            /\ c.log = <<>>

(***************************************************************************)
(* Properties of the converter's state across calls.                       *)
(***************************************************************************)

\* C21: after any sequence of quality assignments and of convert_single
\* and convert_batch calls, successful or failing, the converter's quality
\* is an integer in [0, 100]; an assignment of a value outside [0, 100]
\* ends with ValidationError and leaves the stored quality as it was, and
\* an assignment of a value inside stores it.
C21_QualityInRange ==
    /\ quality \in 0..100
    /\ \A t \in DOMAIN call :
           LET c == call[t]
           IN  c.op = "set_quality" =>
                 IF 0 <= c.quality[1] /\ c.quality[1] <= 100
                 THEN c.err = "none" /\ quality = c.quality[1]
                 ELSE c.err = "ValidationError"
                      /\ Some(quality) = c.entry.quality

\* the assignment converter.quality = 101 has failed on a converter whose
\* quality an earlier assignment or batch call had set to 80
C21_Witness ==
    \E t \in DOMAIN call :
        LET c == call[t]
        IN  /\ c.op = "set_quality" /\ c.pc = "done"
            /\ c.quality = Some(101) /\ c.err = "ValidationError"
            /\ quality = 80

\* C22: for every image of strictly positive integer width and height and
\* every page size, both dimensions computed by _get_image_size and by the
\* inline resize of convert_single are at least 1.
C22_ScaledPositive ==
    geo.op \in {"get_image_size", "inline_resize"} =>
        geo.size[1] >= 1 /\ geo.size[2] >= 1

\* C23: a successful convert_batch over a single image draws it as a
\* successful convert_single with the same parameters does: on a page of
\* the same dimensions, with the same anchor, width and height given to the
\* document writer, and with the same size on the page.
C23_BatchDrawsAsSingle ==
    \A t \in DOMAIN call :
        LET c == call[t]
        IN  /\ c.op = "batch" /\ c.pc = "done" /\ c.err = "none"
            /\ Len(c.image_paths) = 1
            => LET single == AloneDocument(c, c.entry.metadata)
                   one == single.pages[1][1]
                   many == c.doc.pages[1][1]
               IN  /\ c.doc.pagesize = single.pagesize
                   /\ Len(c.doc.pages) = Len(single.pages)
                   /\ <<many.x, many.y>> = <<one.x, one.y>>
                   /\ <<many.width, many.height>> = <<one.width, one.height>>
                   /\ DrawnSize(many) = DrawnSize(one)

\* C24: a convert_single or convert_batch call that ends in an error, at
\* whatever step or image, leaves the converter's quality and metadata
\* equal to their values when the call was entered.
C24_FailedCallLeavesConverter ==
    \A t \in DOMAIN call :
        LET c == call[t]
        IN  c.op \in {"single", "batch"} /\ c.pc = "done" /\ c.err # "none" =>
              /\ Some(quality) = c.entry.quality
              /\ metadata = c.entry.metadata
====
